---- MODULE Spec2Model ----
(***************************************************************************)
(* The retrieval core of the KrishiSevak backend: RAGService of            *)
(* backend/services/rag_service.py.  One service object (vector_db,        *)
(* embeddings_model, knowledge_base, is_initialized), the files it reads   *)
(* and writes, and its four operations initialize, search, add_document    *)
(* and cleanup.                                                            *)
(*                                                                         *)
(* Python values are modelled structurally.  A str is a TLA+ string, on    *)
(* which lower(), split() and the substring test are computed character by *)
(* character.  A value is a record [t, v]: t names the Python type ("str", *)
(* "list", "dict") and v holds the text, the elements, or the (key, value) *)
(* pairs in insertion order.                                               *)
(***************************************************************************)
EXTENDS Integers, Sequences, FiniteSets, TLC

(***************************************************************************)
(* Bounds of the model.                                                    *)
(***************************************************************************)
\* search is called with top_k in 1..MaxTopK
MaxTopK == 2
\* at most MaxAdds successful add_document calls in one run
MaxAdds == 2

(***************************************************************************)
(* Python str: lower(), split(), the `in` substring test, str(int).        *)
(***************************************************************************)
UpperCase == <<"A","B","C","D","E","F","G","H","I","J","K","L","M",
               "N","O","P","Q","R","S","T","U","V","W","X","Y","Z">>
LowerCase == <<"a","b","c","d","e","f","g","h","i","j","k","l","m",
               "n","o","p","q","r","s","t","u","v","w","x","y","z">>
ToLower == [c \in {UpperCase[i] : i \in 1..26} |->
              LowerCase[CHOOSE i \in 1..26 : UpperCase[i] = c]]
LowerChar(c) == IF c \in DOMAIN ToLower THEN ToLower[c] ELSE c
\* the i-th character of s, as a str of length 1
CharAt(s, i) == SubSeq(s, i, i)
RECURSIVE Lower(_)
\* str.lower(), computed by halves
Lower(s) ==
    IF Len(s) = 0 THEN ""
    ELSE IF Len(s) = 1 THEN LowerChar(s)
    ELSE LET h == Len(s) \div 2
         IN  Lower(SubSeq(s, 1, h)) \o Lower(SubSeq(s, h + 1, Len(s)))

Whitespace == {" ", "\t", "\n"}
RECURSIVE SplitFrom(_, _, _, _)
SplitFrom(s, i, cur, acc) ==
    IF i > Len(s)
    THEN IF cur = "" THEN acc ELSE Append(acc, cur)
    ELSE IF CharAt(s, i) \in Whitespace
         THEN SplitFrom(s, i + 1, "", IF cur = "" THEN acc ELSE Append(acc, cur))
         ELSE SplitFrom(s, i + 1, cur \o CharAt(s, i), acc)
\* str.split(): the maximal runs of non-whitespace characters, in order
Split(s) == SplitFrom(s, 1, "", <<>>)

\* `needle in hay` for two str
Contains(hay, needle) ==
    \E i \in 1..(Len(hay) - Len(needle) + 1) :
        SubSeq(hay, i, i + Len(needle) - 1) = needle

Digits == <<"0","1","2","3","4","5","6","7","8","9">>
RECURSIVE NatToStr(_)
NatToStr(n) ==
    IF n < 10 THEN Digits[n + 1]
    ELSE NatToStr(n \div 10) \o Digits[(n % 10) + 1]
\* str(n) for an int n
IntToStr(n) == IF n < 0 THEN "-" \o NatToStr(0 - n) ELSE NatToStr(n)

(***************************************************************************)
(* Python values, dict operations and str() / repr() of a value.           *)
(***************************************************************************)
PyStr(s)   == [t |-> "str",  v |-> s]
PyList(l)  == [t |-> "list", v |-> l]
PyDict(kv) == [t |-> "dict", v |-> kv]

\* the pairs of a dict are <<key, value>>; keys are str
HasKey(d, k) == \E i \in 1..Len(d) : d[i][1] = k
Get(d, k) == d[CHOOSE i \in 1..Len(d) : d[i][1] = k][2]
\* an assignment that always adds a pair, also under a key the dict has
Set_append(d, k, val) == Append(d, <<k, val>>)
\* d[k] = val: replaces in place, or appends a new key (insertion order)
Set(d, k, val) ==
    IF HasKey(d, k)
    THEN [i \in 1..Len(d) |-> IF d[i][1] = k THEN <<k, val>> ELSE d[i]]
    ELSE Append(d, <<k, val>>)
RECURSIVE Update(_, _)
\* d.update(other)
Update(d, other) ==
    IF other = <<>> THEN d
    ELSE Update(Set(d, other[1][1], other[1][2]), Tail(other))

RECURSIVE Repr(_)
RECURSIVE ReprElems(_)
RECURSIVE ReprPairs(_)
ReprElems(l) ==
    IF l = <<>> THEN ""
    ELSE Repr(l[1]) \o (IF Len(l) > 1 THEN ", " \o ReprElems(Tail(l)) ELSE "")
ReprPairs(kv) ==
    IF kv = <<>> THEN ""
    ELSE "'" \o kv[1][1] \o "': " \o Repr(kv[1][2])
         \o (IF Len(kv) > 1 THEN ", " \o ReprPairs(Tail(kv)) ELSE "")
\* repr(x): quotes around a str, brackets around a list, braces around a dict
Repr(x) ==
    CASE x.t = "str"  -> "'" \o x.v \o "'"
      [] x.t = "list" -> "[" \o ReprElems(x.v) \o "]"
      [] x.t = "dict" -> "{" \o ReprPairs(x.v) \o "}"
\* str(x): a str is itself, anything else prints as its repr
Str(x) == IF x.t = "str" THEN x.v ELSE Repr(x)

(***************************************************************************)
(* Scores.  A score is a rational <<numerator, denominator>> with a        *)
(* positive denominator: hits / len(query_terms) of the text search, the   *)
(* fixed 0.9, 0.8, 0.7 of the keyword search, the inner product the index  *)
(* reports.                                                                *)
(***************************************************************************)
ScoreGE(a, b) == a[1] * b[2] >= b[1] * a[2]

RECURSIVE InsertByScore(_, _)
\* r goes behind every element whose score is >= its own
InsertByScore(sorted, r) ==
    IF sorted = <<>> THEN <<r>>
    ELSE IF ScoreGE(sorted[1].score, r.score)
         THEN <<sorted[1]>> \o InsertByScore(Tail(sorted), r)
         ELSE <<r>> \o sorted
RECURSIVE SortedUpTo(_, _)
SortedUpTo(results, n) ==
    IF n = 0 THEN <<>> ELSE InsertByScore(SortedUpTo(results, n - 1), results[n])
\* results.sort(key=lambda x: x["score"], reverse=True): stable, descending
\* the sort without reverse=True: lowest score first
SortByScoreReverse_ascending(results) ==
    LET s == SortedUpTo(results, Len(results))
    IN  [i \in 1..Len(s) |-> s[Len(s) + 1 - i]]
SortByScoreReverse(results) == SortedUpTo(results, Len(results))

\* the slice left out: every result is returned
Truncate_none(results, top_k) == results
\* results[:top_k]
Truncate(results, top_k) ==
    IF Len(results) <= top_k THEN results ELSE SubSeq(results, 1, top_k)

(***************************************************************************)
(* RAGService._get_basic_knowledge_base: the hardcoded baseline.           *)
(***************************************************************************)
_get_basic_knowledge_base ==
    << <<"crops", PyDict(<<
          <<"wheat", PyDict(<<
             <<"planting_season", PyStr("October-December")>>,
             <<"harvesting_season", PyStr("March-May")>>,
             <<"water_requirement", PyStr("450-650mm")>>,
             <<"common_diseases", PyList(<<PyStr("rust"), PyStr("smut"), PyStr("blight")>>)>>,
             <<"fertilizer", PyStr("NPK 120:60:40 kg/ha")>> >>)>>,
          <<"rice", PyDict(<<
             <<"planting_season", PyStr("June-July")>>,
             <<"harvesting_season", PyStr("October-November")>>,
             <<"water_requirement", PyStr("1200-1500mm")>>,
             <<"common_diseases", PyList(<<PyStr("blast"), PyStr("bacterial_blight"), PyStr("brown_spot")>>)>>,
             <<"fertilizer", PyStr("NPK 100:50:50 kg/ha")>> >>)>> >>)>>,
       <<"diseases", PyDict(<<
          <<"bacterial_blight", PyDict(<<
             <<"crops_affected", PyList(<<PyStr("rice")>>)>>,
             <<"symptoms", PyStr("Water-soaked lesions on leaves")>>,
             <<"treatment", PyStr("Copper-based fungicides")>>,
             <<"prevention", PyStr("Use resistant varieties, proper field sanitation")>> >>)>>,
          <<"rust", PyDict(<<
             <<"crops_affected", PyList(<<PyStr("wheat")>>)>>,
             <<"symptoms", PyStr("Orange-red pustules on leaves")>>,
             <<"treatment", PyStr("Propiconazole spray")>>,
             <<"prevention", PyStr("Early sowing, resistant varieties")>> >>)>> >>)>>,
       <<"fertilizers", PyDict(<<
          <<"urea", PyDict(<<
             <<"composition", PyStr("46% N")>>,
             <<"application", PyStr("Split doses during crop growth")>>,
             <<"crops", PyList(<<PyStr("wheat"), PyStr("rice"), PyStr("corn")>>)>> >>)>>,
          <<"dap", PyDict(<<
             <<"composition", PyStr("18:46:0 NPK")>>,
             <<"application", PyStr("Basal application before sowing")>>,
             <<"crops", PyList(<<PyStr("wheat"), PyStr("rice"), PyStr("pulses")>>)>> >>)>> >>)>> >>

(***************************************************************************)
(* RAGService._simple_keyword_search: three fixed keyword lists, one fixed *)
(* advisory per list that the lower-cased query touches.                   *)
(***************************************************************************)
crop_keywords == <<"wheat", "rice", "corn", "tomato", "potato">>
disease_keywords == <<"disease", "infection", "blight", "rust", "spot">>
fertilizer_keywords == <<"fertilizer", "urea", "dap", "nutrient">>
\* any(keyword in query_lower for keyword in keywords)
AnyKeyword(keywords, query_lower) ==
    \E i \in 1..Len(keywords) : Contains(query_lower, keywords[i])

crop_info ==
    [score |-> <<9, 10>>,
     content |-> PyStr("For crop-specific information, please specify the crop name. Common crops include wheat, rice, corn, and vegetables."),
     type |-> "crop_info"]
disease_info ==
    [score |-> <<8, 10>>,
     content |-> PyStr("For disease identification, please upload an image of the affected plant. Common diseases include bacterial blight, rust, and leaf spots."),
     type |-> "disease_info"]
fertilizer_info ==
    [score |-> <<7, 10>>,
     content |-> PyStr("For fertilizer recommendations, consider soil testing and crop requirements. Common fertilizers include Urea (Nitrogen) and DAP (Phosphorus)."),
     type |-> "fertilizer_info"]

\* the three tests chained with elif: only the first list touched answers
_simple_keyword_search_first(query, top_k) ==
    LET query_lower == Lower(query)
    IN  Truncate(IF AnyKeyword(crop_keywords, query_lower) THEN <<crop_info>>
                 ELSE IF AnyKeyword(disease_keywords, query_lower) THEN <<disease_info>>
                 ELSE IF AnyKeyword(fertilizer_keywords, query_lower) THEN <<fertilizer_info>>
                 ELSE <<>>, top_k)
_simple_keyword_search(query, top_k) ==
    LET query_lower == Lower(query)
        r1 == IF AnyKeyword(crop_keywords, query_lower) THEN <<crop_info>> ELSE <<>>
        r2 == IF AnyKeyword(disease_keywords, query_lower) THEN <<disease_info>> ELSE <<>>
        r3 == IF AnyKeyword(fertilizer_keywords, query_lower) THEN <<fertilizer_info>> ELSE <<>>
    IN  Truncate(r1 \o r2 \o r3, top_k)

(***************************************************************************)
(* RAGService._simple_text_search: every (category, item) of the store is  *)
(* scored by the number of query terms found in its lower-cased text.      *)
(***************************************************************************)
RECURSIVE ItemsOf(_, _)
\* the (category, item_name, item_data) triples of one category, in order
ItemsOf(category, items) ==
    IF items = <<>> THEN <<>>
    ELSE <<[category |-> category, item |-> items[1][1], data |-> items[1][2]]>>
         \o ItemsOf(category, Tail(items))
RECURSIVE Entries(_)
\* for category, items in kb.items(): for item_name, item_data in items.items()
Entries(kb) ==
    IF kb = <<>> THEN <<>>
    ELSE ItemsOf(kb[1][1], kb[1][2].v) \o Entries(Tail(kb))

\* the text without str(item_data): only the names are searched
ContentText_names(e) == Lower(e.category \o " " \o e.item)
\* f"{category} {item_name} {str(item_data)}".lower()
ContentText(e) == Lower(e.category \o " " \o e.item \o " " \o Str(e.data))

\* the number of query terms, counted with repetition, found in the text
Hits(query_terms, content_text) ==
    Cardinality({i \in 1..Len(query_terms) : Contains(content_text, query_terms[i])})

TextResult(e, score, n) ==
    [score |-> <<score, n>>,
     content |-> PyDict(<< <<"category", PyStr(e.category)>>,
                           <<"item", PyStr(e.item)>>,
                           <<"data", e.data>> >>),
     type |-> "text_search"]

\* the loop without the test of line 354: every entry becomes a result
Scored_unfiltered(entries, query_terms) ==
    [i \in 1..Len(entries) |->
        TextResult(entries[i], Hits(query_terms, ContentText(entries[i])),
                   Len(query_terms))]
RECURSIVE Scored(_, _)
Scored(entries, query_terms) ==
    IF entries = <<>> THEN <<>>
    ELSE LET score == Hits(query_terms, ContentText(entries[1]))
         IN  (IF score > 0
              THEN <<TextResult(entries[1], score, Len(query_terms))>>
              ELSE <<>>)
             \o Scored(Tail(entries), query_terms)

\* items.items() raises AttributeError when a category's value is no dict
TextSearchRaises(kb) == \E i \in 1..Len(kb) : kb[i][2].t # "dict"

_simple_text_search(kb, query, top_k) ==
    LET query_terms == Split(Lower(query))
    IN  Truncate(SortByScoreReverse(Scored(Entries(kb), query_terms)), top_k)

(***************************************************************************)
(* The vector index and the embedder, the two external primitives.         *)
(*                                                                         *)
(* A vector is one integer component; the inner product of two vectors is  *)
(* their product.  encode() is an opaque text -> vector function: the      *)
(* vector it returns is an input of the call that uses it.  vector_db is   *)
(* one of: None, the str sentinels "simple_search" and "fallback", a local *)
(* index (IndexFlatIP: add, search) holding its vectors in insertion       *)
(* order, or a remote index handle (query / upsert only).                  *)
(***************************************************************************)
Vectors == {1, 2}
\* the score the local index pads a result with when it holds fewer than k vectors
NoScore == <<0 - 1000, 1>>

NoneDb         == [kind |-> "None",          vectors |-> <<>>]
SimpleSearchDb == [kind |-> "simple_search", vectors |-> <<>>]
FallbackDb     == [kind |-> "fallback",      vectors |-> <<>>]
PineconeIndex  == [kind |-> "pinecone",      vectors |-> <<>>]
FaissIndex(vecs) == [kind |-> "faiss",       vectors |-> vecs]

\* hasattr(self.vector_db, 'add') and hasattr(self.vector_db, 'search'): the
\* methods of a faiss index; a pinecone.Index offers upsert and query instead
HasAdd(db)        == db.kind = "faiss"
HasSearch(db)     == db.kind = "faiss"
\* hasattr(self.vector_db, 'write_index'): write_index is a function of the
\* faiss module, faiss.write_index(index, fname); no handle has the attribute
HasWriteIndex(db) == FALSE
\* hasattr(self.embeddings_model, 'encode')
HasEncode(model)  == model \in {"SentenceTransformer", "MockEmbeddingsModel"}

\* index.add(embedding): the vector takes the next position, ntotal
IndexAdd(db, vec) == [db EXCEPT !.vectors = Append(@, vec)]

\* the candidates of the index, best inner product first, ties by position
Candidates(db, q) ==
    SortByScoreReverse([i \in 1..Len(db.vectors) |->
                          [score |-> <<db.vectors[i] * q, 1>>, idx |-> i - 1]])
\* index.search(q, k): exactly k (score, idx) pairs, padded with idx -1
IndexSearch(db, q, k) ==
    LET c == Candidates(db, q)
    IN  [i \in 1..k |-> IF i <= Len(c) THEN c[i] ELSE [score |-> NoScore, idx |-> 0 - 1]]

(***************************************************************************)
(* The files the service reads and writes.                                 *)
(***************************************************************************)
Absent == [exists |-> FALSE, data |-> <<>>]
File(d) == [exists |-> TRUE, data |-> d]

\* a metadata.json in the layout _build_initial_knowledge_base writes
StoredMetadata ==
    << <<"0", PyDict(<< <<"category", PyStr("crops")>>,
                        <<"item", PyStr("maize")>>,
                        <<"data", PyDict(<< <<"fertilizer", PyStr("Urea top dressing")>> >>)>> >>)>> >>
\* a data/knowledge_base/*.json fragment: category -> item -> attributes
KnowledgeFragment ==
    << <<"pests", PyDict(<<
          <<"aphid", PyDict(<< <<"control", PyStr("Neem oil spray")>> >>)>> >>)>> >>

(***************************************************************************)
(* State.                                                                  *)
(***************************************************************************)
VARIABLES
    vector_db,          \* RAGService.vector_db
    embeddings_model,   \* RAGService.embeddings_model
    knowledge_base,     \* RAGService.knowledge_base, a dict in insertion order
    is_initialized,     \* RAGService.is_initialized
    settings,           \* config.settings: VECTOR_DB_TYPE, PINECONE_API_KEY, FAISS_INDEX_PATH
    FAISS_AVAILABLE,    \* whether `import faiss` succeeded
    PINECONE_AVAILABLE, \* whether `import pinecone` succeeded
    index_file,         \* {index_path}/faiss.index
    metadata_file,      \* {index_path}/metadata.json
    knowledge_dir,      \* data/knowledge_base: whether it exists, its *.json files
    last,               \* the last call made on the service and its arguments
    ret,                \* what that call returned to its caller
    ids,                \* the ids add_document has returned so far, in order
    tasks,              \* the calls in flight on the event loop, one per caller
    running             \* the caller whose coroutine the event loop is running

service == <<vector_db, embeddings_model, knowledge_base, is_initialized>>
config  == <<settings, FAISS_AVAILABLE, PINECONE_AVAILABLE>>
disk    == <<index_file, metadata_file, knowledge_dir>>
loop    == <<tasks, running>>
vars    == <<service, config, disk, last, ret, ids, loop>>

\* the service object, the configuration and the files as records
Self == [vector_db |-> vector_db, embeddings_model |-> embeddings_model,
         knowledge_base |-> knowledge_base, is_initialized |-> is_initialized]
Cfg  == [settings |-> settings, FAISS_AVAILABLE |-> FAISS_AVAILABLE,
         PINECONE_AVAILABLE |-> PINECONE_AVAILABLE]
Disk == [index_file |-> index_file, metadata_file |-> metadata_file,
         knowledge_dir |-> knowledge_dir]

(***************************************************************************)
(* What the environment decides during one initialize: whether the         *)
(* embedding model loads, the remote index connects, the local index can   *)
(* be created or read, the knowledge files can be read, whether an         *)
(* exception escapes the inner handlers (raised anywhere in the try block  *)
(* of initialize), and the vector encode() gives the documents of the      *)
(* initial build.                                                          *)
(***************************************************************************)
InitEnvs ==
    [model_loads : BOOLEAN, pinecone_connects : BOOLEAN, faiss_ok : BOOLEAN,
     knowledge_reads : BOOLEAN, unexpected : BOOLEAN, vec : Vectors]
\* the environment of a call that does not initialize: nothing is read from it
NoInitEnv ==
    [model_loads |-> TRUE, pinecone_connects |-> TRUE, faiss_ok |-> TRUE,
     knowledge_reads |-> TRUE, unexpected |-> FALSE, vec |-> 1]

(***************************************************************************)
(* RAGService.initialize and the steps it calls.  Each takes the service   *)
(* object (and the files) and yields the service object after the step.    *)
(***************************************************************************)
\* a load that first marks the service as not ready
_initialize_embeddings_model_reset(self, env) ==
    [self EXCEPT !.is_initialized = FALSE,
                 !.embeddings_model =
        IF env.model_loads THEN "SentenceTransformer" ELSE "MockEmbeddingsModel"]
_initialize_embeddings_model(self, env) ==
    [self EXCEPT !.embeddings_model =
        IF env.model_loads THEN "SentenceTransformer" ELSE "MockEmbeddingsModel"]

_load_simple_knowledge_base(self) ==
    [self EXCEPT !.knowledge_base = _get_basic_knowledge_base]

_initialize_simple_search(self) ==
    _load_simple_knowledge_base([self EXCEPT !.vector_db = SimpleSearchDb])

\* the fallback without line 173: the readiness flag is left as it was
_initialize_fallback_unready(self) ==
    [self EXCEPT !.vector_db = FallbackDb,
                 !.embeddings_model = "MockEmbeddingsModel",
                 !.knowledge_base = _get_basic_knowledge_base]
\* the fallback without line 171: the embedder is left as it was
_initialize_fallback_no_embedder(self) ==
    [self EXCEPT !.vector_db = FallbackDb,
                 !.knowledge_base = _get_basic_knowledge_base,
                 !.is_initialized = TRUE]
_initialize_fallback(self) ==
    [self EXCEPT !.vector_db = FallbackDb,
                 !.embeddings_model = "MockEmbeddingsModel",
                 !.knowledge_base = _get_basic_knowledge_base,
                 !.is_initialized = TRUE]

\* the documents _build_initial_knowledge_base embeds: one per (category, item)
BuildDocuments(kb) == Entries(kb)
\* the metadata it writes: {str(i): {"category", "item", "data"}}
BuildMetadata(docs) ==
    [i \in 1..Len(docs) |->
        <<IntToStr(i - 1),
          PyDict(<< <<"category", PyStr(docs[i].category)>>,
                    <<"item", PyStr(docs[i].item)>>,
                    <<"data", docs[i].data>> >>)>>]
RECURSIVE AddAll(_, _, _)
AddAll(db, n, vec) == IF n = 0 THEN db ELSE AddAll(IndexAdd(db, vec), n - 1, vec)

\* yields the service object and metadata.json after the build
_build_initial_knowledge_base(self, files, env) ==
    LET documents == BuildDocuments(self.knowledge_base)
    IN  IF ~HasEncode(self.embeddings_model) \/ ~HasAdd(self.vector_db)
        THEN [self |-> self, metadata_file |-> files.metadata_file]
        ELSE IF documents = <<>>
        THEN [self |-> self, metadata_file |-> files.metadata_file]
        ELSE [self |-> [self EXCEPT !.vector_db = AddAll(@, Len(documents), env.vec)],
              metadata_file |-> File(BuildMetadata(documents))]

\* yields the service object and metadata.json
_initialize_faiss(self, cfg, files, env) ==
    IF ~cfg.FAISS_AVAILABLE \/ ~env.faiss_ok
    THEN [self |-> _initialize_simple_search(self), metadata_file |-> files.metadata_file]
    ELSE IF files.index_file.exists /\ files.metadata_file.exists
    THEN [self |-> [self EXCEPT
                      !.vector_db = FaissIndex(files.index_file.data),
                      !.knowledge_base = files.metadata_file.data],
          metadata_file |-> files.metadata_file]
    ELSE _build_initial_knowledge_base(
            [self EXCEPT !.vector_db = FaissIndex(<<>>),
                         !.knowledge_base = <<>>],
            files, env)

_initialize_pinecone(self, cfg, files, env) ==
    IF ~cfg.PINECONE_AVAILABLE \/ cfg.settings.PINECONE_API_KEY = ""
       \/ ~env.pinecone_connects
    THEN _initialize_faiss(self, cfg, files, env)
    ELSE [self |-> [self EXCEPT !.vector_db = PineconeIndex],
          metadata_file |-> files.metadata_file]

RECURSIVE UpdateAll(_, _)
UpdateAll(kb, json_files) ==
    IF json_files = <<>> THEN kb
    ELSE UpdateAll(Update(kb, json_files[1]), Tail(json_files))

_load_knowledge_base(self, files, env) ==
    IF ~files.knowledge_dir.exists THEN self
    ELSE IF files.knowledge_dir.data # <<>> /\ ~env.knowledge_reads
    THEN [self EXCEPT !.knowledge_base = _get_basic_knowledge_base]
    ELSE [self EXCEPT !.knowledge_base = UpdateAll(@, files.knowledge_dir.data)]

\* line 54-60: the backend the configuration selects; yields the service
\* object and metadata.json
InitializeVectorDb(self, cfg, files, env) ==
    LET db_type == Lower(cfg.settings.VECTOR_DB_TYPE)
    IN  IF db_type = "pinecone" /\ cfg.PINECONE_AVAILABLE
        THEN _initialize_pinecone(self, cfg, files, env)
        ELSE IF db_type = "faiss" /\ cfg.FAISS_AVAILABLE
        THEN _initialize_faiss(self, cfg, files, env)
        ELSE [self |-> _initialize_simple_search(self),
              metadata_file |-> files.metadata_file]

\* yields the service object and metadata.json after initialize; raises nothing
initialize(self, cfg, files, env) ==
    LET s1 == _initialize_embeddings_model(self, env)
        r2 == InitializeVectorDb(s1, cfg, files, env)
        s3 == _load_knowledge_base(r2.self, [files EXCEPT !.metadata_file = r2.metadata_file], env)
    IN  IF env.unexpected
        THEN [self |-> _initialize_fallback(self), metadata_file |-> files.metadata_file,
              raised |-> FALSE]
        ELSE [self |-> [s3 EXCEPT !.is_initialized = TRUE],
              metadata_file |-> r2.metadata_file, raised |-> FALSE]


\* one environment for each distinct outcome of initialize in this state
InitInputs(self, cfg, files) ==
    LET outcomes == {initialize(self, cfg, files, env) : env \in InitEnvs}
    IN  {CHOOSE env \in InitEnvs : initialize(self, cfg, files, env) = o : o \in outcomes}

(***************************************************************************)
(* What a call returns to its caller: a list, an int, None, or an          *)
(* exception that left the call.                                           *)
(***************************************************************************)
RetList(l) == [kind |-> "list",  val |-> l]
RetInt(n)  == [kind |-> "int",   val |-> <<n>>]
RetNone    == [kind |-> "None",  val |-> <<>>]
RetRaise   == [kind |-> "raise", val |-> <<>>]

(***************************************************************************)
(* RAGService.search.  env: the environment of a lazy initialize (init),   *)
(* whether encode() and the index query return or throw (encode_ok,        *)
(* index_ok), and the vector of the query (vec).                           *)
(***************************************************************************)
\* the loop without the membership test: every candidate is returned, one
\* that has no entry with None as its content
Resolve_padded(kb, cands) ==
    [i \in 1..Len(cands) |->
        [score |-> cands[i].score,
         content |-> IF HasKey(kb, IntToStr(cands[i].idx))
                     THEN Get(kb, IntToStr(cands[i].idx))
                     ELSE [t |-> "None", v |-> <<>>],
         index |-> cands[i].idx]]
\* line 321-330: the candidates whose str(idx) is a key of the store
RECURSIVE Resolve(_, _)
Resolve(kb, cands) ==
    IF cands = <<>> THEN <<>>
    ELSE (IF HasKey(kb, IntToStr(cands[1].idx))
          THEN <<[score |-> cands[1].score,
                  content |-> Get(kb, IntToStr(cands[1].idx)),
                  index |-> cands[1].idx]>>
          ELSE <<>>)
         \o Resolve(kb, Tail(cands))

\* the try block with the fallback tier answered by the text search
SearchTry_text_on_fallback(self, query, top_k, env) ==
    IF self.vector_db.kind \in {"fallback", "simple_search"}
    THEN [exc |-> FALSE, val |-> _simple_text_search(self.knowledge_base, query, top_k)]
    ELSE [exc |-> FALSE, val |-> _simple_keyword_search(query, top_k)]
\* the try block of search on an initialized service: the value it returns
\* (exc FALSE), or an exception raised inside it (exc TRUE)
SearchTry(self, query, top_k, env) ==
    IF self.vector_db.kind = "fallback"
    THEN [exc |-> FALSE, val |-> _simple_keyword_search(query, top_k)]
    ELSE IF self.vector_db.kind = "simple_search"
    THEN IF TextSearchRaises(self.knowledge_base)
         THEN [exc |-> TRUE, val |-> <<>>]
         ELSE [exc |-> FALSE,
               val |-> _simple_text_search(self.knowledge_base, query, top_k)]
    ELSE IF HasEncode(self.embeddings_model) /\ ~env.encode_ok
    THEN [exc |-> TRUE, val |-> <<>>]
    ELSE IF HasEncode(self.embeddings_model) /\ HasSearch(self.vector_db)
    THEN IF ~env.index_ok
         THEN [exc |-> TRUE, val |-> <<>>]
         ELSE [exc |-> FALSE,
               val |-> Resolve(self.knowledge_base,
                               IndexSearch(self.vector_db, env.vec, top_k))]
    ELSE [exc |-> FALSE, val |-> _simple_keyword_search(query, top_k)]

\* an except clause that logs and returns no result
SearchExcept_empty(r, query, top_k) == RetList(IF r.exc THEN <<>> ELSE r.val)
\* an except clause that logs and re-raises
SearchExcept_reraise(r, query, top_k) ==
    IF r.exc THEN RetRaise ELSE RetList(r.val)
\* the except clause of search: the keyword search answers instead
SearchExcept(r, query, top_k) ==
    IF r.exc THEN RetList(_simple_keyword_search(query, top_k)) ELSE RetList(r.val)

\* a search whose except clause also switches the service to the fallback
search_degrading(self, cfg, files, query, top_k, env) ==
    LET i == IF self.is_initialized
             THEN [self |-> self, metadata_file |-> files.metadata_file]
             ELSE initialize(self, cfg, files, env.init)
        t == SearchTry(i.self, query, top_k, env)
    IN  [self |-> IF t.exc THEN _initialize_fallback(i.self) ELSE i.self,
         metadata_file |-> i.metadata_file,
         ret |-> SearchExcept(t, query, top_k)]
\* yields the service object, metadata.json and the returned value
search(self, cfg, files, query, top_k, env) ==
    LET i == IF self.is_initialized
             THEN [self |-> self, metadata_file |-> files.metadata_file]
             ELSE initialize(self, cfg, files, env.init)
    IN  [self |-> i.self, metadata_file |-> i.metadata_file,
         ret |-> SearchExcept(SearchTry(i.self, query, top_k, env), query, top_k)]

(***************************************************************************)
(* RAGService.add_document.  env: the environment of a lazy initialize     *)
(* (init), whether encode() and index.add() return or throw (encode_ok,    *)
(* add_ok), the vector of the content (vec) and the clock (now).           *)
(***************************************************************************)
Timestamps == {"2024-01-01T00:00:00"}

Document(content, metadata, now) ==
    PyDict(<< <<"content", PyStr(content)>>,
              <<"metadata", metadata>>,
              <<"added_at", PyStr(now)>> >>)

\* the entry written under the key after the id that is returned
StoreDocument_off_by_one(kb, doc) == Set(kb, IntToStr(Len(kb) + 1), doc)
\* line 419-420: doc_id = len(kb); kb[str(doc_id)] = {...}
StoreDocument(kb, doc) == Set(kb, IntToStr(Len(kb)), doc)

\* the try block with the store updated ahead of the embedding and the insert:
\* a failure of either leaves the entry behind
AddTry_store_first(self, content, metadata, env) ==
    LET stored == [self EXCEPT !.knowledge_base =
                      StoreDocument(@, Document(content, metadata, env.now))]
    IN  IF ~HasEncode(self.embeddings_model)
        THEN [self |-> self, ret |-> RetNone]
        ELSE IF ~env.encode_ok \/ (HasAdd(self.vector_db) /\ ~env.add_ok)
        THEN [self |-> stored, ret |-> RetNone]
        ELSE [self |-> [stored EXCEPT !.vector_db =
                          IF HasAdd(@) THEN IndexAdd(@, env.vec) ELSE @],
              ret |-> RetInt(Len(self.knowledge_base))]
\* the try block of add_document on an initialized service
AddTry(self, content, metadata, env) ==
    IF ~HasEncode(self.embeddings_model)
    THEN [self |-> self, ret |-> RetNone]
    ELSE IF ~env.encode_ok
    THEN [self |-> self, ret |-> RetNone]
    ELSE IF HasAdd(self.vector_db) /\ ~env.add_ok
    THEN [self |-> self, ret |-> RetNone]
    ELSE LET db == IF HasAdd(self.vector_db)
                   THEN IndexAdd(self.vector_db, env.vec) ELSE self.vector_db
         IN  [self |-> [self EXCEPT
                          !.vector_db = db,
                          !.knowledge_base =
                              StoreDocument(@, Document(content, metadata, env.now))],
              ret |-> RetInt(Len(self.knowledge_base))]

\* yields the service object, metadata.json and the returned value
add_document(self, cfg, files, content, metadata, env) ==
    LET i == IF self.is_initialized
             THEN [self |-> self, metadata_file |-> files.metadata_file]
             ELSE initialize(self, cfg, files, env.init)
        a == AddTry(i.self, content, metadata, env)
    IN  [self |-> a.self, metadata_file |-> i.metadata_file, ret |-> a.ret]

(***************************************************************************)
(* RAGService.cleanup.  write_ok: whether writing the index file succeeds. *)
(***************************************************************************)
\* the try block of cleanup: faiss.index after it, and whether it raised;
\* nothing in it writes metadata.json
CleanupTry(self, cfg, files, write_ok) ==
    IF HasWriteIndex(self.vector_db) /\ cfg.settings.FAISS_INDEX_PATH # ""
    THEN IF write_ok
         THEN [exc |-> FALSE, index_file |-> File(self.vector_db.vectors)]
         ELSE [exc |-> TRUE, index_file |-> files.index_file]
    ELSE [exc |-> FALSE, index_file |-> files.index_file]

\* cleanup with neither the hasattr probe nor the try: the call of write_index
\* on a handle that has no such attribute raises, and so does a failed write
cleanup_unguarded(self, cfg, files, write_ok) ==
    IF HasWriteIndex(self.vector_db) /\ write_ok
    THEN [index_file |-> File(self.vector_db.vectors),
          metadata_file |-> files.metadata_file, ret |-> RetNone]
    ELSE [index_file |-> files.index_file,
          metadata_file |-> files.metadata_file, ret |-> RetRaise]
\* yields faiss.index, metadata.json and the returned value; the except clause
\* logs and returns
cleanup(self, cfg, files, write_ok) ==
    [index_file |-> CleanupTry(self, cfg, files, write_ok).index_file,
     metadata_file |-> files.metadata_file,
     ret |-> RetNone]

(***************************************************************************)
(* The inputs of the calls.                                                *)
(***************************************************************************)
Queries == {"aphids", "Bacterial blight rice"}
\* search(query, top_k = 5): the top_k of a call that passes none
DefaultTopK == 5
\* queries that touch two, one, three and none of the keyword lists
ExampleQueries ==
    {"I have wheat rust disease", "bacterial blight rice",
     "Urea or DAP for tomato leaf spot", "hello"}
Contents == {"Neem oil controls aphids"}
Metadatas == {PyDict(<< <<"source", PyStr("test")>> >>)}

\* the environment of a lazy initialize: read only by a service not yet ready
LazyInitInputs(self, cfg, files) ==
    IF self.is_initialized THEN {NoInitEnv} ELSE InitInputs(self, cfg, files)
\* the service object a call works on once it is past its lazy initialize
Ready(self, cfg, files, init) ==
    IF self.is_initialized THEN self ELSE initialize(self, cfg, files, init).self

\* the environments of search that differ in something the call reads: encode()
\* runs only in front of an index handle, the index query only on a local index
\* and only after encode() has returned, and the vector only in that query
SearchInputs(self, cfg, files) ==
    UNION {LET db == Ready(self, cfg, files, i).vector_db
           IN  [init : {i}, encode_ok : {TRUE},
                index_ok : {TRUE},
                vec : IF db.kind = "faiss" THEN Vectors ELSE {1}]
               \cup
               [init : {i}, encode_ok : {TRUE},
                index_ok : IF db.kind = "faiss" THEN {FALSE} ELSE {},
                vec : {1}]
               \cup
               [init : {i},
                encode_ok : IF db.kind \in {"faiss", "pinecone"} THEN {FALSE} ELSE {},
                index_ok : {TRUE}, vec : {1}]
           : i \in LazyInitInputs(self, cfg, files)}
\* the environments of add_document that differ in something the call reads:
\* index.add() runs, and the vector is kept, only on a local index and only
\* after encode() has returned
AddInputs(self, cfg, files) ==
    UNION {LET db == Ready(self, cfg, files, i).vector_db
           IN  [init : {i}, encode_ok : {TRUE}, add_ok : {TRUE},
                vec : IF db.kind = "faiss" THEN Vectors ELSE {1},
                now : Timestamps]
               \cup
               [init : {i}, encode_ok : {TRUE},
                add_ok : IF db.kind = "faiss" THEN {FALSE} ELSE {},
                vec : {1}, now : Timestamps]
               \cup
               [init : {i}, encode_ok : {FALSE}, add_ok : {TRUE},
                vec : {1}, now : Timestamps]
           : i \in LazyInitInputs(self, cfg, files)}

\* a call as its caller made it: the operation, its arguments, and whether the
\* service was ready (is_initialized) when the call entered
NoCall == [op |-> "", query |-> "", top_k |-> 0, content |-> "", ready |-> FALSE]
Call(op, query, top_k, content) ==
    [op |-> op, query |-> query, top_k |-> top_k, content |-> content,
     ready |-> is_initialized]

\* the request handlers that call the service, and no handler
Callers == {"a", "b"}
NoCaller == ""
\* a call on the event loop: the operation, the statement its coroutine is at
\* (pc), is_initialized when it entered (ready), the locals of add_document
\* (content, embedding, doc_id), the embedder that made the embedding, whether
\* a dependency threw in it (failed), what it returned (ret), and the calls
\* that were in flight when it was made or were made while it was (among)
NoTask ==
    [op |-> "", pc |-> "none", ready |-> FALSE, content |-> "",
     encoder |-> "None", embedding |-> 0, doc_id |-> 0 - 1,
     failed |-> FALSE, ret |-> RetNone, among |-> {}]

(***************************************************************************)
(* Init: RAGService.__init__, under any configuration and any files.       *)
(***************************************************************************)
Init ==
    /\ vector_db = NoneDb
    /\ embeddings_model = "None"
    /\ knowledge_base = <<>>
    /\ is_initialized = FALSE
    /\ settings \in [VECTOR_DB_TYPE : {"faiss", "Pinecone"},
                     PINECONE_API_KEY : {"", "pc-key"},
                     FAISS_INDEX_PATH : {"./data/faiss_index"}]
    /\ FAISS_AVAILABLE \in BOOLEAN
    /\ PINECONE_AVAILABLE \in BOOLEAN
    \* the remote client is installed where the remote index is selected, and a
    \* key is configured where the client is installed: initialize reads neither
    \* PINECONE_AVAILABLE nor the key in the other configurations
    /\ PINECONE_AVAILABLE => Lower(settings.VECTOR_DB_TYPE) = "pinecone"
    /\ settings.PINECONE_API_KEY # "" => PINECONE_AVAILABLE
    /\ \E stored \in BOOLEAN :
          /\ index_file = IF stored THEN File(<<1>>) ELSE Absent
          /\ metadata_file = IF stored THEN File(StoredMetadata) ELSE Absent
    /\ knowledge_dir \in {Absent, File(<<KnowledgeFragment>>)}
    /\ last = NoCall
    /\ ret = RetNone
    /\ ids = <<>>
    /\ tasks = [c \in Callers |-> NoTask]
    /\ running = NoCaller

(***************************************************************************)
(* The four operations.  The application makes one call at a time: a call  *)
(* runs from entry to return without yielding (no await in the service     *)
(* suspends), and Return hands its result to the caller.                   *)
(***************************************************************************)
Idle == last = NoCall

Initialize ==
    /\ Idle
    /\ \E r \in {initialize(Self, Cfg, Disk, env) : env \in InitEnvs} :
            /\ vector_db' = r.self.vector_db
            /\ embeddings_model' = r.self.embeddings_model
            /\ knowledge_base' = r.self.knowledge_base
            /\ is_initialized' = r.self.is_initialized
            /\ metadata_file' = r.metadata_file
            /\ last' = Call("initialize", "", 0, "")
            /\ ret' = IF r.raised THEN RetRaise ELSE RetNone
            /\ UNCHANGED <<config, index_file, knowledge_dir, ids, loop>>

\* a call of search with a query of queries and a top_k of top_ks
SearchWith(queries, top_ks) ==
    /\ Idle
    /\ \E env \in SearchInputs(Self, Cfg, Disk) :
      \E query \in queries, top_k \in top_ks :
        \E r \in {search(Self, Cfg, Disk, query, top_k, env)} :
            /\ vector_db' = r.self.vector_db
            /\ embeddings_model' = r.self.embeddings_model
            /\ knowledge_base' = r.self.knowledge_base
            /\ is_initialized' = r.self.is_initialized
            /\ metadata_file' = r.metadata_file
            /\ last' = Call("search", query, top_k, "")
            /\ ret' = r.ret
            /\ UNCHANGED <<config, index_file, knowledge_dir, ids, loop>>

Search == SearchWith(Queries, 1..MaxTopK)

AddDocument ==
    /\ Idle
    /\ Len(ids) < MaxAdds
    /\ \E env \in AddInputs(Self, Cfg, Disk) :
        \E content \in Contents, metadata \in Metadatas :
          \E r \in {add_document(Self, Cfg, Disk, content, metadata, env)} :
              /\ vector_db' = r.self.vector_db
              /\ embeddings_model' = r.self.embeddings_model
              /\ knowledge_base' = r.self.knowledge_base
              /\ is_initialized' = r.self.is_initialized
              /\ metadata_file' = r.metadata_file
              /\ last' = Call("add_document", "", 0, content)
              /\ ret' = r.ret
              /\ ids' = IF r.ret.kind = "int" THEN Append(ids, r.ret.val[1]) ELSE ids
              /\ UNCHANGED <<config, index_file, knowledge_dir, loop>>

Cleanup ==
    /\ Idle
    /\ \E write_ok \in BOOLEAN :
        \E r \in {cleanup(Self, Cfg, Disk, write_ok)} :
            /\ index_file' = r.index_file
            /\ metadata_file' = r.metadata_file
            /\ last' = Call("cleanup", "", 0, "")
            /\ ret' = r.ret
            /\ UNCHANGED <<service, config, knowledge_dir, ids, loop>>

\* the caller takes the result; the next call can be made
Return ==
    /\ ~Idle
    /\ last' = NoCall
    /\ ret' = RetNone
    /\ UNCHANGED <<service, config, disk, ids, loop>>

Next == Initialize \/ Search \/ AddDocument \/ Cleanup \/ Return

Spec == Init /\ [][Next]_vars

(***************************************************************************)
(* The service without add_document: initialize and search only, search    *)
(* called with the example queries and every top_k up to the default.      *)
(***************************************************************************)
SearchExample == SearchWith(ExampleQueries, 1..DefaultTopK)

NextExamples == Initialize \/ SearchExample \/ Return

SpecExamples == Init /\ [][NextExamples]_vars


(***************************************************************************)
(* The service under the event loop.  The operations are coroutines; the   *)
(* request handlers call them on one event loop, which runs one coroutine  *)
(* at a time and takes another only when the running one suspends or       *)
(* returns.  A coroutine moves statement by statement: the three awaits of *)
(* initialize (embeddings, vector_db, knowledge), line 65 (ready), the     *)
(* except clause (fallback), the body of search, the statements of         *)
(* add_document (encode, add, doc_id, store) and the body of cleanup.      *)
(***************************************************************************)
Ops == {"initialize", "search", "add_document", "cleanup"}
\* the query of the searches made under the event loop; top_k is the default
LoopQueries == {"aphids"}

\* the statements that await a coroutine
AwaitPoints == {"pending", "embeddings", "vector_db", "knowledge", "fallback", "search"}
\* every await hands control to the event loop
Suspends_at_await(pc) == pc \in AwaitPoints
\* every statement can be followed by a switch to another caller, as between
\* threads
Suspends_each_statement(pc) == TRUE
\* whether the statement at pc hands control to the event loop before the
\* coroutine goes on: an await of a coroutine runs it in place, and the
\* coroutines awaited are the service's own, none of which awaits a future,
\* a sleep or an executor
Suspends(pc) == FALSE

\* what np.random.rand(len(texts), 384) can return: any batch of vectors
MockEmbeddingsModel_encode(texts) == [1..Len(texts) -> Vectors]
\* what SentenceTransformer.encode(texts) returns: a function of the text;
\* the calls under the event loop embed one text
SentenceTransformer_encode(texts) == {[i \in 1..Len(texts) |-> 1]}
\* what self.embeddings_model.encode(texts) can return
Encode(model, texts) ==
    IF model = "MockEmbeddingsModel" THEN MockEmbeddingsModel_encode(texts)
    ELSE SentenceTransformer_encode(texts)

\* the entries of the store that add_document wrote
Documents(kb) ==
    SelectSeq(kb, LAMBDA e : e[2].t = "dict" /\ HasKey(e[2].v, "content"))
InFlight(c) == tasks[c].pc \notin {"none", "done"}
At(c, pc) == running = c /\ tasks[c].pc = pc
\* the statement after initialize has returned to the operation that called it
AfterInitialize(op) ==
    CASE op = "initialize" -> "done"
      [] op = "search" -> "search"
      [] op = "add_document" -> "encode"
\* the event loop after caller c has run the statement at pc and is at next
Scheduled(c, pc, next) ==
    running' = IF next = "done" \/ Suspends(pc) THEN NoCaller ELSE c
\* caller c has run the statement at pc and goes on to the statement next
Advance(c, pc, next) ==
    /\ tasks' = [tasks EXCEPT ![c].pc = next]
    /\ Scheduled(c, pc, next)
\* caller c has run the statement at pc and returns r
Done(c, pc, failed, r) ==
    /\ tasks' = [tasks EXCEPT ![c].pc = "done", ![c].failed = failed, ![c].ret = r]
    /\ Scheduled(c, pc, "done")
\* initialize has run the statement at pc and returns to what called it
InitializeReturns(c, pc) ==
    IF tasks[c].op = "initialize"
    THEN Done(c, pc, FALSE, RetNone)
    ELSE Advance(c, pc, AfterInitialize(tasks[c].op))
\* the service object becomes self
Becomes(self) ==
    /\ vector_db' = self.vector_db
    /\ embeddings_model' = self.embeddings_model
    /\ knowledge_base' = self.knowledge_base
    /\ is_initialized' = self.is_initialized

\* a handler calls an operation: the coroutine is created, it has not run
\* yet.  The handlers run on the same event loop, so a call is made while no
\* coroutine of the service is running; the handlers are interchangeable, and
\* the free handler that comes first in the alphabet makes the call
CallOp ==
    \E c \in Callers, op \in Ops :
      \E content \in IF op = "add_document" THEN Contents ELSE {""} :
        /\ running = NoCaller
        /\ tasks[c].pc = "none"
        /\ c = "b" => tasks["a"].pc # "none"
        /\ op = "add_document" =>
              Len(Documents(knowledge_base))
                + Cardinality({d \in Callers : InFlight(d) /\ tasks[d].op = op})
                  < MaxAdds
        /\ tasks' = [d \in Callers |->
                        IF d = c
                        THEN [NoTask EXCEPT
                                !.op = op, !.pc = "pending", !.content = content,
                                !.among = {e \in Callers \ {c} : InFlight(e)}]
                        ELSE IF InFlight(d)
                        THEN [tasks[d] EXCEPT !.among = @ \cup {c}]
                        ELSE tasks[d]]
        /\ UNCHANGED <<service, config, disk, last, ret, ids, running>>

\* the event loop takes a coroutine that can run
Schedule ==
    /\ running = NoCaller
    /\ \E c \in Callers :
        /\ InFlight(c)
        /\ running' = c
    /\ UNCHANGED <<service, config, disk, last, ret, ids, tasks>>

\* the coroutine starts: initialize and cleanup enter their try block, search
\* and add_document test is_initialized (line 304, 407) and await initialize
Enter ==
    \E c \in Callers :
        /\ At(c, "pending")
        /\ \E next \in {CASE tasks[c].op = "initialize" -> "embeddings"
                          [] tasks[c].op = "cleanup" -> "cleanup"
                          [] OTHER -> IF is_initialized
                                      THEN AfterInitialize(tasks[c].op)
                                      ELSE "embeddings"} :
            /\ tasks' = [tasks EXCEPT ![c].pc = next, ![c].ready = is_initialized]
            /\ Scheduled(c, "pending", next)
        /\ UNCHANGED <<service, config, disk, last, ret, ids>>

\* line 51: await self._initialize_embeddings_model(); an exception that
\* escapes goes to the except clause of initialize
InitEmbeddings ==
    \E c \in Callers :
        /\ At(c, "embeddings")
        /\ \E r \in {IF env.unexpected THEN [raised |-> TRUE, self |-> Self]
                     ELSE [raised |-> FALSE,
                           self |-> _initialize_embeddings_model(Self, env)]
                     : env \in InitEnvs} :
            /\ Becomes(r.self)
            /\ Advance(c, "embeddings", IF r.raised THEN "fallback" ELSE "vector_db")
        /\ UNCHANGED <<config, disk, last, ret, ids>>

\* line 54-60: the await of the backend the configuration selects
InitVectorDb ==
    \E c \in Callers :
        /\ At(c, "vector_db")
        /\ \E r \in {IF env.unexpected
                     THEN [raised |-> TRUE, self |-> Self, metadata_file |-> metadata_file]
                     ELSE LET r2 == InitializeVectorDb(Self, Cfg, Disk, env)
                          IN  [raised |-> FALSE, self |-> r2.self,
                               metadata_file |-> r2.metadata_file]
                     : env \in InitEnvs} :
            /\ Becomes(r.self)
            /\ metadata_file' = r.metadata_file
            /\ Advance(c, "vector_db", IF r.raised THEN "fallback" ELSE "knowledge")
        /\ UNCHANGED <<config, index_file, knowledge_dir, last, ret, ids>>

\* line 63: await self._load_knowledge_base()
InitKnowledge ==
    \E c \in Callers :
        /\ At(c, "knowledge")
        /\ \E r \in {IF env.unexpected THEN [raised |-> TRUE, self |-> Self]
                     ELSE [raised |-> FALSE,
                           self |-> _load_knowledge_base(Self, Disk, env)]
                     : env \in InitEnvs} :
            /\ Becomes(r.self)
            /\ Advance(c, "knowledge", IF r.raised THEN "fallback" ELSE "ready")
        /\ UNCHANGED <<config, disk, last, ret, ids>>

\* line 65: self.is_initialized = True, and initialize returns
InitReady ==
    \E c \in Callers :
        /\ At(c, "ready")
        /\ is_initialized' = TRUE
        /\ InitializeReturns(c, "ready")
        /\ UNCHANGED <<vector_db, embeddings_model, knowledge_base,
                       config, disk, last, ret, ids>>

\* line 68-71: await self._initialize_fallback(), and initialize returns
InitFallback ==
    \E c \in Callers :
        /\ At(c, "fallback")
        /\ Becomes(_initialize_fallback(Self))
        /\ InitializeReturns(c, "fallback")
        /\ UNCHANGED <<config, disk, last, ret, ids>>

\* line 307-337: search past its lazy initialize, with the default top_k
SearchBody ==
    \E c \in Callers :
        /\ At(c, "search")
        /\ \E env \in SearchInputs(Self, Cfg, Disk), query \in LoopQueries :
            \E r \in {SearchExcept(SearchTry(Self, query, DefaultTopK, env),
                                   query, DefaultTopK)} :
                Done(c, "search", FALSE, r)
        /\ UNCHANGED <<service, config, disk, last, ret, ids>>

\* line 411-412: embedding = self.embeddings_model.encode([content])
AddEncode ==
    \E c \in Callers :
        /\ At(c, "encode")
        /\ IF ~HasEncode(embeddings_model)
           THEN Done(c, "encode", FALSE, RetNone)
           ELSE \/ Done(c, "encode", TRUE, RetNone)
                \/ \E embedding \in Encode(embeddings_model, <<tasks[c].content>>) :
                      /\ tasks' = [tasks EXCEPT ![c].pc = "add",
                                                ![c].encoder = embeddings_model,
                                                ![c].embedding = embedding[1]]
                      /\ Scheduled(c, "encode", "add")
        /\ UNCHANGED <<service, config, disk, last, ret, ids>>

\* line 415-416: if hasattr(self.vector_db, 'add'): self.vector_db.add(embedding)
AddIndex ==
    \E c \in Callers :
        /\ At(c, "add")
        /\ IF ~HasAdd(vector_db)
           THEN Advance(c, "add", "doc_id") /\ UNCHANGED vector_db
           ELSE \/ Done(c, "add", TRUE, RetNone) /\ UNCHANGED vector_db
                \/ /\ vector_db' = IndexAdd(vector_db, tasks[c].embedding)
                   /\ Advance(c, "add", "doc_id")
        /\ UNCHANGED <<embeddings_model, knowledge_base, is_initialized,
                       config, disk, last, ret, ids>>

\* line 419: doc_id = len(self.knowledge_base)
AddDocId ==
    \E c \in Callers :
        /\ At(c, "doc_id")
        /\ tasks' = [tasks EXCEPT ![c].pc = "store",
                                  ![c].doc_id = Len(knowledge_base)]
        /\ Scheduled(c, "doc_id", "store")
        /\ UNCHANGED <<service, config, disk, last, ret, ids>>

\* line 420-427: self.knowledge_base[str(doc_id)] = {...}; return doc_id
AddStore ==
    \E c \in Callers :
        /\ At(c, "store")
        /\ \E metadata \in Metadatas, now \in Timestamps :
              knowledge_base' = Set(knowledge_base, IntToStr(tasks[c].doc_id),
                                    Document(tasks[c].content, metadata, now))
        /\ Done(c, "store", FALSE, RetInt(tasks[c].doc_id))
        /\ UNCHANGED <<vector_db, embeddings_model, is_initialized,
                       config, disk, last, ret, ids>>

\* line 451-460: the body of cleanup
CleanupBody ==
    \E c \in Callers :
        /\ At(c, "cleanup")
        /\ \E write_ok \in BOOLEAN :
            \E r \in {cleanup(Self, Cfg, Disk, write_ok)} :
                /\ index_file' = r.index_file
                /\ metadata_file' = r.metadata_file
                /\ Done(c, "cleanup", FALSE, r.ret)
        /\ UNCHANGED <<service, config, knowledge_dir, last, ret, ids>>

\* the handler takes the result of its call and can make another
TaskReturn ==
    \E c \in Callers :
        /\ tasks[c].pc = "done"
        /\ tasks' = [d \in Callers |->
                        IF d = c THEN NoTask
                        ELSE [tasks[d] EXCEPT !.among = @ \ {c}]]
        /\ UNCHANGED <<service, config, disk, last, ret, ids, running>>

NextTasks ==
    \/ CallOp \/ Schedule \/ Enter
    \/ InitEmbeddings \/ InitVectorDb \/ InitKnowledge \/ InitReady \/ InitFallback
    \/ SearchBody
    \/ AddEncode \/ AddIndex \/ AddDocId \/ AddStore
    \/ CleanupBody
    \/ TaskReturn

\* the service is constructed where no index has been stored and there is no
\* knowledge directory
InitTasks == Init /\ ~index_file.exists /\ ~knowledge_dir.exists

SpecTasks == InitTasks /\ [][NextTasks]_vars
(***************************************************************************)
(* Properties.                                                             *)
(***************************************************************************)
\* a result of the keyword search: the advisory texts carry a "type" of their own
IsKeywordResult(r) ==
    "type" \in DOMAIN r /\ r.type \in {"crop_info", "disease_info", "fertilizer_info"}
\* the scores of a result list never increase from one result to the next
NonIncreasing(results) ==
    \A i \in 1..(Len(results) - 1) : ScoreGE(results[i].score, results[i + 1].score)
\* the entries add_document has written: a dict with a "content" key
IsDocument(x) == x.t = "dict" /\ HasKey(x.v, "content")
\* the text search results of a list that carry the text c as their data
Carrying(results, c) ==
    {i \in 1..Len(results) :
        /\ "type" \in DOMAIN results[i]
        /\ results[i].type = "text_search"
        /\ Get(results[i].content.v, "data") = PyStr(c)}

\* C1: search never raises to its caller: whatever the state of the service
\* and whether or not the embedder or the index query throws, the call returns
\* a list.
C1_SearchReturnsList ==
    last.op = "search" => ret.kind = "list"
\* a search on a local index that came back with keyword advisories: the try
\* block raised and the except clause answered
C1_Witness ==
    /\ last.op = "search"
    /\ vector_db.kind = "faiss"
    /\ ret.kind = "list"
    /\ ret.val # <<>>
    /\ IsKeywordResult(ret.val[1])

\* C2: initialize never raises to its caller and always returns with
\* is_initialized true, whatever the dependencies did.
C2_InitializeReady ==
    last.op = "initialize" => ret.kind = "None" /\ is_initialized
\* an initialize that went through the except clause into the fallback
C2_Witness ==
    /\ last.op = "initialize"
    /\ vector_db.kind = "fallback"
    /\ ret.kind = "None"
    /\ is_initialized

\* C3: in every tier the list search returns has at most top_k results and
\* its scores are in non-increasing order.
C3_BoundedAndSorted ==
    last.op = "search" /\ ret.kind = "list" =>
        /\ Len(ret.val) <= last.top_k
        /\ NonIncreasing(ret.val)
\* a text search that had more matches than top_k and returned top_k of them,
\* the last of which was not among the first top_k entries of the store
C3_Witness ==
    /\ last.op = "search"
    /\ vector_db.kind = "simple_search"
    /\ last.top_k = MaxTopK
    /\ Len(ret.val) = last.top_k
    /\ Get(ret.val[MaxTopK].content.v, "item") = PyStr("bacterial_blight")

\* C4: with a local index active, every vector the index holds at position i
\* has an entry in the knowledge base under the key str(i).
C4_VectorHasEntry ==
    vector_db.kind = "faiss" =>
        \A i \in 1..Len(vector_db.vectors) : HasKey(knowledge_base, IntToStr(i - 1))

\* C5: a document add_document has stored under an id stays in the knowledge
\* base under that id after every later operation.
C5_NeverDeleted ==
    \A i \in 1..Len(ids) :
        /\ HasKey(knowledge_base, IntToStr(ids[i]))
        /\ IsDocument(Get(knowledge_base, IntToStr(ids[i])))

\* C6: the ids add_document returns over the life of one service are strictly
\* increasing, so no id is returned twice.
C6_IdsIncrease ==
    \A i, j \in 1..Len(ids) : i < j => ids[i] < ids[j]

\* C7: add_document does not raise; when the embedder or the index insert
\* throws it returns None, and the knowledge base is then exactly what it was
\* before the call.
C7_FailedAddLeavesStore ==
    [][last'.op = "add_document" =>
          /\ ret'.kind \in {"int", "None"}
          /\ (ret'.kind = "None" => knowledge_base' = knowledge_base)]_vars
\* C7, amended: add_document does not raise; when the embedder or the index
\* insert throws it returns None, and on a service that was ready when the call
\* was made the knowledge base is then exactly what it was before the call.
C7_FailedAddLeavesReadyStore ==
    [][last'.op = "add_document" =>
          /\ ret'.kind \in {"int", "None"}
          /\ (ret'.kind = "None" /\ last'.ready => knowledge_base' = knowledge_base)]_vars
\* a failed add_document on a ready service with a local index
C7_Witness ==
    /\ last.op = "add_document"
    /\ last.ready
    /\ ret.kind = "None"
    /\ vector_db.kind = "faiss"

\* C8: cleanup never raises to its caller, in any state of the service.
C8_CleanupReturns ==
    last.op = "cleanup" => ret.kind = "None"
\* a cleanup of a ready service holding a local index with a vector in it
C8_Witness ==
    /\ last.op = "cleanup"
    /\ ret.kind = "None"
    /\ vector_db.kind = "faiss"
    /\ vector_db.vectors # <<>>

\* C9: with a vector backend active (local or remote index) and an empty
\* knowledge base, search returns the empty list for every query.
C9_EmptyStoreEmptyResult ==
    /\ last.op = "search"
    /\ vector_db.kind \in {"faiss", "pinecone"}
    /\ knowledge_base = <<>>
    => ret.val = <<>>

\* C10: on the simple-text tier, add_document leaves the document in the
\* knowledge base under the id it returns, and a search whose terms all occur
\* in the lower-cased content of a document of the knowledge base, with top_k
\* at least the number of matching entries, returns a result carrying that
\* content.
C10_RoundTrip ==
    vector_db.kind = "simple_search" =>
        /\ last.op = "add_document" /\ ret.kind = "int" =>
              /\ HasKey(knowledge_base, IntToStr(ret.val[1]))
              /\ Get(Get(knowledge_base, IntToStr(ret.val[1])).v, "content")
                    = PyStr(last.content)
        /\ last.op = "search" =>
              \A i \in 1..Len(knowledge_base) :
                LET doc == knowledge_base[i][2]
                    terms == Split(Lower(last.query))
                    matching == Scored(Entries(knowledge_base), terms)
                IN  /\ IsDocument(doc)
                    /\ \A j \in 1..Len(terms) :
                          Contains(Lower(Get(doc.v, "content").v), terms[j])
                    /\ last.top_k >= Len(matching)
                    => Carrying(ret.val, Get(doc.v, "content").v) # {}
\* a search for "aphids" that found the document added before it
C10_Witness ==
    /\ last.op = "search"
    /\ last.query = "aphids"
    /\ vector_db.kind = "simple_search"
    /\ ids # <<>>
    /\ Carrying(ret.val, "Neem oil controls aphids") # {}

\* the three fields of the service object a caller can observe
Observable(self) ==
    <<self.is_initialized, self.vector_db, self.knowledge_base>>

\* C11: initialize is idempotent in a fixed environment: a second initialize
\* right after a first, with the same configuration, files and dependency
\* outcomes, leaves is_initialized, vector_db and knowledge_base as the first
\* left them.  (Every service state is also the state of an idle service.)
C11_InitializeIdempotent ==
    Idle =>
        \A env \in InitEnvs :
            \A once \in {initialize(Self, Cfg, Disk, env)} :
                Observable(initialize(once.self, Cfg,
                                      [Disk EXCEPT !.metadata_file = once.metadata_file],
                                      env).self)
                    = Observable(once.self)
\* a repeated initialize that kept the remote index and merged the knowledge
\* file into a store that held it already
C11_Witness ==
    /\ last.op = "initialize"
    /\ last.ready
    /\ vector_db.kind = "pinecone"
    /\ HasKey(knowledge_base, "pests")
    /\ ids = <<>>

\* the advisory types in the order of the keyword lists, with list and score
AdvisoryTypes == <<"crop_info", "disease_info", "fertilizer_info">>
KeywordsOf(type) ==
    CASE type = "crop_info" -> crop_keywords
      [] type = "disease_info" -> disease_keywords
      [] type = "fertilizer_info" -> fertilizer_keywords
AdvisoryScore(type) ==
    CASE type = "crop_info" -> <<9, 10>>
      [] type = "disease_info" -> <<8, 10>>
      [] type = "fertilizer_info" -> <<7, 10>>
\* the types whose list has a keyword in the lower-cased query, in list order
Touched(query) ==
    SelectSeq(AdvisoryTypes, LAMBDA t : AnyKeyword(KeywordsOf(t), Lower(query)))

\* C12: on the keyword-fallback path search returns one advisory per keyword
\* list the lower-cased query touches, crop (0.9) then disease (0.8) then
\* fertilizer (0.7), truncated to top_k; "I have wheat rust disease" with
\* top_k = 5 gives exactly crop then disease.
C12_KeywordAdvisories ==
    last.op = "search" /\ vector_db.kind = "fallback" =>
        /\ Len(ret.val) = IF Len(Touched(last.query)) < last.top_k
                          THEN Len(Touched(last.query)) ELSE last.top_k
        /\ \A i \in 1..Len(ret.val) :
              /\ ret.val[i].type = Touched(last.query)[i]
              /\ ret.val[i].score = AdvisoryScore(Touched(last.query)[i])
        /\ (last.query = "I have wheat rust disease" /\ last.top_k = DefaultTopK =>
              [i \in 1..Len(ret.val) |-> ret.val[i].type]
                  = <<"crop_info", "disease_info">>)
\* the example of the claim, answered by the fallback tier
C12_Witness ==
    /\ last.op = "search"
    /\ vector_db.kind = "fallback"
    /\ last.query = "I have wheat rust disease"
    /\ last.top_k = DefaultTopK
    /\ Len(ret.val) = 2

\* the text search result for the (category, item) entry of the store
IsEntry(r, category, item) ==
    /\ "type" \in DOMAIN r
    /\ r.type = "text_search"
    /\ Get(r.content.v, "category") = PyStr(category)
    /\ Get(r.content.v, "item") = PyStr(item)

\* C13: on the simple-text tier of a service that has only been initialized,
\* search("bacterial blight rice", 3) returns diseases.bacterial_blight, and
\* no returned result and no baseline document scores higher than it.
C13_BacterialBlightOnTop ==
    /\ last.op = "search"
    /\ vector_db.kind = "simple_search"
    /\ last.query = "bacterial blight rice"
    /\ last.top_k = 3
    => \E i \in 1..Len(ret.val) :
          /\ IsEntry(ret.val[i], "diseases", "bacterial_blight")
          /\ \A j \in 1..Len(ret.val) : ScoreGE(ret.val[i].score, ret.val[j].score)
          /\ LET terms == Split(Lower(last.query))
                 docs == Entries(_get_basic_knowledge_base)
             IN  \A k \in 1..Len(docs) :
                    ScoreGE(ret.val[i].score,
                            <<Hits(terms, ContentText(docs[k])), Len(terms)>>)
\* the search of the claim, with three results of which one scores lower
C13_Witness ==
    /\ last.op = "search"
    /\ vector_db.kind = "simple_search"
    /\ last.query = "bacterial blight rice"
    /\ last.top_k = 3
    /\ Len(ret.val) = 3
    /\ ~ScoreGE(ret.val[3].score, ret.val[1].score)

\* the environments of a search on a ready service in which encode() or the
\* index query throws
FailingSearchEnvs(db) ==
    [init : {NoInitEnv}, encode_ok : {FALSE}, index_ok : {TRUE}, vec : {1}]
    \cup [init : {NoInitEnv}, encode_ok : {TRUE},
          index_ok : IF db.kind = "faiss" THEN {FALSE} ELSE {}, vec : {1}]
\* the environments of a search in which encode() or the index query throws,
\* behind any lazy initialize
FailingSearchInputs(self, cfg, files) ==
    {env \in SearchInputs(self, cfg, files) : ~env.encode_ok \/ ~env.index_ok}

\* C14: when encode() or the index query throws in a search on a vector
\* backend, search returns what the keyword search returns for the same
\* query and top_k, and vector_db, knowledge_base and is_initialized are what
\* they were before the call.
C14_FailedSearchKeepsState ==
    Idle =>
        \A env \in FailingSearchInputs(Self, Cfg, Disk) :
          \A query \in Queries, top_k \in 1..MaxTopK :
            \A r \in {search(Self, Cfg, Disk, query, top_k, env)} :
                r.self.vector_db.kind \in {"faiss", "pinecone"} =>
                    /\ r.ret = RetList(_simple_keyword_search(query, top_k))
                    /\ Observable(r.self) = Observable(Self)
\* C14, amended: the same on a service that was ready when the call was made.
C14_FailedSearchKeepsReadyState ==
    Idle /\ is_initialized /\ vector_db.kind \in {"faiss", "pinecone"} =>
        \A env \in FailingSearchEnvs(vector_db) :
          \A query \in Queries, top_k \in 1..MaxTopK :
            \A r \in {search(Self, Cfg, Disk, query, top_k, env)} :
                /\ r.ret = RetList(_simple_keyword_search(query, top_k))
                /\ Observable(r.self) = Observable(Self)
\* a search on a ready service whose local index holds vectors and whose
\* store has entries, answered with keyword advisories
C14_Witness ==
    /\ last.op = "search"
    /\ last.ready
    /\ vector_db.kind = "faiss"
    /\ vector_db.vectors # <<>>
    /\ knowledge_base # <<>>
    /\ ret.val # <<>>
    /\ IsKeywordResult(ret.val[1])

\* C15: with the local index active and the storage writable, cleanup writes
\* the current index to faiss.index and the current knowledge base to
\* metadata.json.
C15_CleanupPersists ==
    vector_db.kind = "faiss" =>
        \A r \in {cleanup(Self, Cfg, Disk, TRUE)} :
            /\ r.index_file = File(vector_db.vectors)
            /\ r.metadata_file = File(knowledge_base)

\* C16: when the remote index is the configured preference, the simple-text
\* tier becomes the active backend only after an attempt at the local index
\* has failed: with faiss installed and working, initialize does not end on
\* the simple-text tier.
C16_LocalIndexBeforeSimpleText ==
    Idle /\ Lower(settings.VECTOR_DB_TYPE) = "pinecone" /\ FAISS_AVAILABLE =>
        \A env \in InitEnvs :
            env.faiss_ok /\ ~env.unexpected =>
                initialize(Self, Cfg, Disk, env).self.vector_db.kind # "simple_search"

\* C17: after initialize with no knowledge directory the knowledge base holds
\* the baseline categories crops, diseases and fertilizers, on every tier.
C17_BaselineInstalled ==
    last.op = "initialize" /\ ~knowledge_dir.exists =>
        \A category \in {"crops", "diseases", "fertilizers"} :
            HasKey(knowledge_base, category)

\* C18: when initialize reaches the local index and no index file is on disk,
\* the new index holds one vector per baseline document and each position of
\* it is a key of the knowledge base.
C18_FreshIndexPopulated ==
    last.op = "initialize" /\ vector_db.kind = "faiss" /\ ~index_file.exists =>
        /\ Len(vector_db.vectors) = Len(Entries(_get_basic_knowledge_base))
        /\ \A i \in 1..Len(vector_db.vectors) : HasKey(knowledge_base, IntToStr(i - 1))

\* the environments of a search on a ready service in which nothing throws
WorkingSearchEnvs ==
    [init : {NoInitEnv}, encode_ok : {TRUE}, index_ok : {TRUE}, vec : Vectors]

\* C19: with a vector index active, remote or local, and no exception, search
\* returns candidates of the index resolved against the knowledge base and no
\* keyword advisory.
C19_VectorSearchOnIndex ==
    Idle /\ is_initialized /\ vector_db.kind \in {"faiss", "pinecone"} =>
        \A env \in WorkingSearchEnvs :
          \A query \in Queries, top_k \in 1..MaxTopK :
            \A r \in {search(Self, Cfg, Disk, query, top_k, env)} :
                \A i \in 1..Len(r.ret.val) :
                    /\ ~IsKeywordResult(r.ret.val[i])
                    /\ "index" \in DOMAIN r.ret.val[i]
                    /\ HasKey(knowledge_base, IntToStr(r.ret.val[i].index))

\* the candidates of the index whose id is a key of the store, as results
ResolvedCandidates(kb, db, vec, top_k) ==
    LET kept == SelectSeq(IndexSearch(db, vec, top_k),
                          LAMBDA c : HasKey(kb, IntToStr(c.idx)))
    IN  [i \in 1..Len(kept) |->
            [score |-> kept[i].score,
             content |-> Get(kb, IntToStr(kept[i].idx)),
             index |-> kept[i].idx]]

\* C20: a search on the local index in which nothing throws returns exactly
\* the index's candidates whose id is a key of the knowledge base, in the
\* index's order, each with the index's score and the store's entry; the
\* others are dropped and nothing is padded.
C20_ResolvedCandidatesOnly ==
    Idle /\ is_initialized /\ vector_db.kind = "faiss" =>
        \A env \in WorkingSearchEnvs :
          \A query \in Queries, top_k \in 1..MaxTopK :
            search(Self, Cfg, Disk, query, top_k, env).ret
                = RetList(ResolvedCandidates(knowledge_base, vector_db, env.vec, top_k))
\* a search that asked an index of two vectors for two candidates and
\* returned the one that has an entry
C20_Witness ==
    /\ last.op = "search"
    /\ last.top_k = 2
    /\ vector_db.kind = "faiss"
    /\ Len(vector_db.vectors) = 2
    /\ Len(ret.val) = 1
    /\ "index" \in DOMAIN ret.val[1]


\* the two tiers that hold no vector index
TextOnly == {"simple_search", "fallback"}

\* C21: on a text-only backend (simple-text or keyword-fallback) a successful
\* add_document stores {content, metadata, added_at} under the id it returns,
\* the store grows by exactly one entry, and the backend, the readiness flag
\* and the entries the store held are unchanged.
C21_TextOnlyAddStoresOne ==
    [][last'.op = "add_document" /\ ret'.kind = "int" /\ vector_db.kind \in TextOnly =>
          /\ Len(knowledge_base') = Len(knowledge_base) + 1
          /\ HasKey(knowledge_base', IntToStr(ret'.val[1]))
          /\ LET doc == Get(knowledge_base', IntToStr(ret'.val[1]))
             IN  /\ doc.t = "dict"
                 /\ [i \in 1..Len(doc.v) |-> doc.v[i][1]]
                        = <<"content", "metadata", "added_at">>
                 /\ Get(doc.v, "content") = PyStr(last'.content)
                 /\ Get(doc.v, "metadata") \in Metadatas
                 /\ Get(doc.v, "added_at") \in {PyStr(now) : now \in Timestamps}
          /\ \A i \in 1..Len(knowledge_base) : knowledge_base'[i] = knowledge_base[i]
          /\ vector_db' = vector_db
          /\ is_initialized' = is_initialized]_vars
\* a second document added on the keyword-fallback tier, under the id 4
C21_Witness ==
    /\ last.op = "add_document"
    /\ last.ready
    /\ ret = RetInt(4)
    /\ vector_db.kind = "fallback"
    /\ Len(knowledge_base) = 5
    /\ HasKey(knowledge_base, "4")

\* the reference of C22, on the entries of the store in store order: the
\* query tokens, the text of an entry, the number of tokens found in each
\* entry, the entries found at all, and the place of an entry in the ranking
ReferenceTokens(query) == Split(Lower(query))
ReferenceText(e) == Lower(e.category \o " " \o e.item \o " " \o Str(e.data))
ReferenceCount(text, tokens) ==
    Cardinality({t \in 1..Len(tokens) : Contains(text, tokens[t])})
RECURSIVE ReferenceHits(_, _)
ReferenceHits(es, tokens) ==
    IF es = <<>> THEN <<>>
    ELSE <<ReferenceCount(ReferenceText(es[1]), tokens)>>
         \o ReferenceHits(Tail(es), tokens)
ReferenceKept(hits) == {i \in 1..Len(hits) : hits[i] > 0}
ReferencePlace(hits, i) ==
    1 + Cardinality({j \in ReferenceKept(hits) :
                        hits[j] > hits[i] \/ (hits[j] = hits[i] /\ j < i)})
\* the result list, given the entries, their hits and the number of tokens
ReferenceRanking(es, hits, n, top_k) ==
    LET kept == ReferenceKept(hits)
        len == IF Cardinality(kept) < top_k THEN Cardinality(kept) ELSE top_k
    IN  [p \in 1..len |->
            LET i == CHOOSE k \in kept : ReferencePlace(hits, k) = p
            IN  [score |-> <<hits[i], n>>,
                 content |-> PyDict(<< <<"category", PyStr(es[i].category)>>,
                                       <<"item", PyStr(es[i].item)>>,
                                       <<"data", es[i].data>> >>),
                 type |-> "text_search"]]

\* C22: on the simple-text tier search(query, top_k) returns what the
\* reference returns: the lower-cased query split on whitespace; per entry the
\* number of tokens, with repetition, that are substrings of the lower-cased
\* "category item attributes" text, over the number of tokens; the entries with
\* a score above 0, by score descending, store order among ties; the first
\* top_k of them.
C22_TextSearchIsReference ==
    last.op = "search" /\ vector_db.kind = "simple_search" =>
        \A es \in {Entries(knowledge_base)}, tokens \in {ReferenceTokens(last.query)} :
            \A hits \in {ReferenceHits(es, tokens)} :
                ret = RetList(ReferenceRanking(es, hits, Len(tokens), last.top_k))
\* a search of three tokens, two results of the top score returned and at
\* least one entry found that was cut off
C22_Witness ==
    /\ last.op = "search"
    /\ vector_db.kind = "simple_search"
    /\ Len(ReferenceTokens(last.query)) = 3
    /\ Len(ret.val) = 2
    /\ ret.val[1].score = ret.val[2].score
    /\ Cardinality(ReferenceKept(ReferenceHits(Entries(knowledge_base),
                                               ReferenceTokens(last.query)))) > 2

\* C23: the readiness flag never goes back: once is_initialized is true it is
\* true in every later state, whatever calls follow, and at every statement
\* of an initialize that runs on a ready service.
C23_ReadinessNeverReverts ==
    [][is_initialized => is_initialized']_vars
\* an initialize called on a ready service, between its second and its third
\* await, with the flag true
C23_Witness ==
    \E c \in Callers :
        /\ tasks[c].op = "initialize"
        /\ tasks[c].ready
        /\ tasks[c].pc = "knowledge"
        /\ is_initialized

\* the statements of initialize
InitializeSteps == {"embeddings", "vector_db", "knowledge", "ready", "fallback"}

\* C24: at most one initialization is in progress: while a call is inside
\* initialize (called directly, or by search or add_document on a service not
\* yet ready), no other call is inside it; the other call waits.
C24_OneInitializationAtATime ==
    \A c, d \in Callers :
        c # d => ~(tasks[c].pc \in InitializeSteps /\ tasks[d].pc \in InitializeSteps)
\* a search made on a service not yet ready while an initialize was in flight,
\* waiting while that initialize is between two awaits
C24_Witness ==
    \E c, d \in Callers :
        /\ c # d
        /\ tasks[c].op = "initialize"
        /\ tasks[c].pc = "vector_db"
        /\ tasks[d].op = "search"
        /\ tasks[d].pc = "pending"
        /\ c \in tasks[d].among
        /\ ~is_initialized

\* C25: the stub embedder is deterministic: two encode calls of the stub on
\* the same text return the same vector.
C25_StubDeterministic ==
    \A c, d \in Callers :
        /\ tasks[c].encoder = "MockEmbeddingsModel"
        /\ tasks[d].encoder = "MockEmbeddingsModel"
        /\ tasks[c].content = tasks[d].content
        => tasks[c].embedding = tasks[d].embedding

\* C26: whenever is_initialized is true, vector_db is set (an index or one of
\* the sentinels, never None) and embeddings_model is set (the model or the
\* stub, never None).
C26_ReadyHasHandles ==
    is_initialized => vector_db.kind # "None" /\ embeddings_model # "None"
\* a service made ready by the except clause of initialize, with the stub
\* embedder and the fallback sentinel, after a search that initialized it
C26_Witness ==
    /\ last.op = "search"
    /\ ~last.ready
    /\ is_initialized
    /\ vector_db.kind = "fallback"
    /\ embeddings_model = "MockEmbeddingsModel"

\* C27: search on a ready service is read-only: in every tier and also when
\* encode() or the index query throws, the knowledge base, the vector index,
\* the backend, the embedder and the readiness flag are what they were.
C27_SearchReadOnly ==
    [][last'.op = "search" /\ is_initialized => service' = service]_vars
\* a search on a ready service with a local index that holds the vector of an
\* added document, answered by the except clause
C27_Witness ==
    /\ last.op = "search"
    /\ last.ready
    /\ vector_db.kind = "faiss"
    /\ ids # <<>>
    /\ Len(vector_db.vectors) = Len(knowledge_base)
    /\ ret.val # <<>>
    /\ IsKeywordResult(ret.val[1])

\* two calls of add_document on a ready service, in flight at the same time,
\* both returned, in neither of which a dependency threw
AddedTogether(c, d) ==
    /\ c # d
    /\ d \in tasks[c].among
    /\ \A e \in {c, d} :
          /\ tasks[e].op = "add_document"
          /\ tasks[e].pc = "done"
          /\ tasks[e].ready
          /\ ~tasks[e].failed

\* C28: two add_document calls in flight at the same time on a ready service
\* both return an id, the ids differ, and the knowledge base holds each
\* document under the id its caller got.
C28_ConcurrentAddsKeepBoth ==
    \A c, d \in Callers :
        AddedTogether(c, d) =>
            /\ tasks[c].ret.kind = "int" /\ tasks[d].ret.kind = "int"
            /\ tasks[c].ret # tasks[d].ret
            /\ \A e \in {c, d} :
                  /\ HasKey(knowledge_base, IntToStr(tasks[e].ret.val[1]))
                  /\ Get(Get(knowledge_base, IntToStr(tasks[e].ret.val[1])).v, "content")
                        = PyStr(tasks[e].content)
\* the two calls returned 3 and 4 on the simple-text tier
C28_Witness ==
    /\ AddedTogether("a", "b")
    /\ vector_db.kind = "simple_search"
    /\ {tasks["a"].ret, tasks["b"].ret} = {RetInt(3), RetInt(4)}

\* the environment of a search on a ready service in which nothing throws
ReadySearchEnv ==
    [init |-> NoInitEnv, encode_ok |-> TRUE, index_ok |-> TRUE, vec |-> 1]
\* a query with one term of the content and one of the metadata of a document
DocumentQueries == {"aphids test"}
\* the key of the store a text search result was made from
StoreKey(r) == Get(r.content.v, "category").v

\* C29: on the simple-text tier search returns at most one result per stored
\* document: no two results of a search refer to the same key of the store,
\* also for the documents add_document has stored.
C29_OneResultPerKey ==
    Idle /\ vector_db.kind = "simple_search" =>
        \A query \in DocumentQueries :
            \A r \in {search(Self, Cfg, Disk, query, DefaultTopK, ReadySearchEnv)} :
                \A i, j \in 1..Len(r.ret.val) :
                    i # j => StoreKey(r.ret.val[i]) # StoreKey(r.ret.val[j])

\* the stores of another service on the fallback tier: the baseline alone,
\* and the store of this one with one more document
OtherStores(kb) ==
    {_get_basic_knowledge_base}
    \cup {StoreDocument(kb, Document(content, metadata, now)) :
            content \in Contents, metadata \in Metadatas, now \in Timestamps}

\* C30: on the keyword-fallback tier the result depends on the query and
\* top_k only: a service with another knowledge base returns the same list
\* for the same query and top_k, and every result is a keyword advisory, never
\* an added document.
C30_KeywordResultIgnoresStore ==
    last.op = "search" /\ vector_db.kind = "fallback" =>
        /\ \A kb \in OtherStores(knowledge_base) :
              search([Self EXCEPT !.knowledge_base = kb], Cfg, Disk,
                     last.query, last.top_k, ReadySearchEnv).ret = ret
        /\ \A i \in 1..Len(ret.val) : IsKeywordResult(ret.val[i])
\* a search on the fallback tier of a service that holds an added document,
\* answered with two advisories
C30_Witness ==
    /\ last.op = "search"
    /\ vector_db.kind = "fallback"
    /\ HasKey(knowledge_base, "3")
    /\ Len(ret.val) = 2
====
